---- MODULE Spec2Model ----
(***************************************************************************)
(* Model of system76-firmware's library entry points (src/src/lib.rs):     *)
(* schedule(), unschedule() and download(), over the state they touch:     *)
(* the one-shot boot flag, the boot-visible directory                      *)
(* /boot/efi/system76-firmware-update and the temporary staging directory  *)
(* created inside /boot/efi.                                               *)
(***************************************************************************)
EXTENDS Integers, Sequences, FiniteSets, TLC

\* ------------------------------------------------------------------ bounds
NumDigests == 2
FilesPerArchive == 2
MaxTime == 4
MaxStale == 2

\* --------------------------------------------------------------- constants
MODEL_WHITELIST ==
    { "addw1", "bonw11", "bonw12", "bonw13", "darp5", "galp2", "galp3",
      "galp3-b", "galp3-c", "gaze10", "gaze11", "gaze12", "gaze13", "gaze14",
      "kudu2", "kudu3", "kudu4", "kudu5", "lemu6", "lemu7", "lemu8", "meer4",
      "orxp1", "oryp2", "oryp2-ess", "oryp3", "oryp3-b", "oryp3-ess", "oryp4",
      "oryp4-b", "oryp5", "serw9", "serw10", "serw11", "serw11-b",
      "thelio-b1", "thelio-major-b1", "thelio-major-b1.1", "thelio-major-b2",
      "thelio-major-r1", "thelio-r1" }

\* A match on the beginning of the model (starts_with) instead of equality.
model_is_whitelisted_prefix(m) ==
    \E whitelist \in MODEL_WHITELIST :
        /\ Len(m) >= Len(whitelist)
        /\ SubSeq(m, 1, Len(whitelist)) = whitelist

model_is_whitelisted(m) == \E whitelist \in MODEL_WHITELIST : m = whitelist

\* Board models the machine may report: an allow-list entry, a proper prefix
\* of one and a case variant of one.
BoardModels == { "galp3", "galp", "GALP3" }

\* Embedded-controller project strings; "" is what ec_or_none yields when no
\* embedded controller is present.
EcProjects == { "", "N130ZU" }

sha256(s) ==
    IF s = "" THEN "e3b0c44298fc1c149afbf4c8996fb92427ae41e4649b934ca495991b7852b855"
    ELSE IF s = "N130ZU" THEN "1922aa03d5931823ee181e4edfe9b8dd2802ed1f377eb946fed98199bb979bbb"
    ELSE "ffffffffffffffffffffffffffffffffffffffffffffffffffffffffffffffff"

\* An absent embedded controller treated as an error.
firmware_id_strict(biosOk, bios_model, ec_project) ==
    IF biosOk /\ ec_project # ""
    THEN [ok |-> TRUE,  val |-> bios_model \o "_" \o sha256(ec_project)]
    ELSE [ok |-> FALSE, val |-> "bios"]

\* firmware_id(): Err when bios::bios() fails, else model _ sha256(ec_project)
firmware_id(biosOk, bios_model, ec_project) ==
    IF biosOk
    THEN [ok |-> TRUE,  val |-> bios_model \o "_" \o sha256(ec_project)]
    ELSE [ok |-> FALSE, val |-> "bios"]

updater_file == "system76-firmware-update.tar.xz"
firmware_file(fid) == fid \o ".tar.xz"

Digests == 1 .. NumDigests

\* The manifest named by a digest: the payload names it maps.  The build
\* server publishes the updater and one firmware archive per supported
\* (model, ec project) pair.
ManifestFiles(d) ==
    {updater_file} \cup
    { firmware_file(firmware_id(TRUE, w, p).val) : w \in MODEL_WHITELIST, p \in EcProjects }

\* ------------------------------------------------------------- directories
NoDir == [exists |-> FALSE, files |-> {}]
EmptyDir == [exists |-> TRUE, files |-> {}]

\* The i-th entry of the archive `file` of manifest `d`, unpacked below `sub`
\* ("" is the destination root).
Entry(sub, d, file, i) == [sub |-> sub, digest |-> d, file |-> file, n |-> i]

\* First k entries of an archive, in archive order, unpacked below `sub`.
Unpacked(sub, d, file, k) == { Entry(sub, d, file, i) : i \in 1 .. k }

\* A complete artifact for (digest, firmware id): what schedule() commits.
Artifact(d, fid) ==
    [exists |-> TRUE,
     files  |-> Unpacked("", d, updater_file, FilesPerArchive)
                \cup Unpacked("firmware", d, firmware_file(fid), FilesPerArchive)]


\* --------------------------------------------------- collaborators' effects
\* boot::unset_next_boot / boot::set_next_boot: on success the flag is
\* cleared / set, on failure it is left as it was.
unset_next_boot(ok, flag) == IF ok THEN FALSE ELSE flag
set_next_boot(ok, flag) == IF ok THEN TRUE ELSE flag

\* fs::remove_dir_all: fails on a missing path; otherwise removes the tree,
\* or fails having removed any part of its content.
remove_dir_all(d) ==
    IF ~ d.exists
    THEN { [ok |-> FALSE, dir |-> d] }
    ELSE { [ok |-> TRUE, dir |-> NoDir] }
         \cup { [ok |-> FALSE, dir |-> [exists |-> TRUE, files |-> S]] : S \in SUBSET d.files }

\* remove_dir without the exists() guard.
remove_dir_unguarded(d) == remove_dir_all(d)

\* remove_dir(path): remove_dir_all only when the path exists.
remove_dir(d) ==
    IF d.exists THEN remove_dir_all(d) ELSE { [ok |-> TRUE, dir |-> d] }

\* extract(digest, file, path): look the payload up in the cached manifest
\* and unpack it below `sub` of the directory `dest`.
extract(d, file, dest, sub) ==
    { [ok |-> FALSE, err |-> "cache", dir |-> dest] }
    \cup
    IF file \notin ManifestFiles(d)
    THEN { [ok |-> FALSE, err |-> "not found", dir |-> dest] }
    ELSE { [ok |-> FALSE, err |-> "failed to extract",
            dir |-> [dest EXCEPT !.files = @ \cup Unpacked(sub, d, file, k)]]
              : k \in 0 .. FilesPerArchive }
         \cup
         { [ok |-> TRUE, err |-> "",
            dir |-> [dest EXCEPT !.files = @ \cup Unpacked(sub, d, file, FilesPerArchive)]] }

\* fs::rename(from, to) of a directory: atomic; fails when `from` is missing
\* or `to` is a non-empty directory, and may fail for any other I/O reason.
fs_rename(from, to) ==
    { [ok |-> FALSE, from |-> from, to |-> to] }
    \cup
    IF from.exists /\ (~ to.exists \/ to.files = {})
    THEN { [ok |-> TRUE, from |-> NoDir, to |-> from] }
    ELSE {}

\* ------------------------------------------------------- the pointer cache
\* Seconds since the UNIX epoch, as u64.  The word is scaled down: it holds
\* 0 .. MaxTime, and arithmetic wraps modulo WordModulus as u64 arithmetic
\* wraps modulo 2^64.
Times == 0 .. MaxTime
WordModulus == MaxTime + 1

\* current - last on the machine word: the wrapped difference, and whether
\* the true difference was negative.
wrapping_sub(current, last) ==
    [value |-> (current - last) % WordModulus, underflow |-> current < last]

\* exceeded with >= in place of > in the age test.
exceeded_eval_inclusive(last, current, limit) ==
    IF current = 0
    THEN [value |-> TRUE, subtracted |-> FALSE, underflow |-> FALSE]
    ELSE IF last > current
    THEN [value |-> TRUE, subtracted |-> FALSE, underflow |-> FALSE]
    ELSE LET d == wrapping_sub(current, last) IN
         [value |-> d.value >= limit, subtracted |-> TRUE, underflow |-> d.underflow]

\* exceeded without the last > current operand: current == 0 || current - last > limit
exceeded_eval_unguarded(last, current, limit) ==
    IF current = 0
    THEN [value |-> TRUE, subtracted |-> FALSE, underflow |-> FALSE]
    ELSE LET d == wrapping_sub(current, last) IN
         [value |-> d.value > limit, subtracted |-> TRUE, underflow |-> d.underflow]

\* timestamp::exceeded with the evaluation of its operands made explicit:
\*   current == 0 || last > current || current - last > limit
\* `subtracted` tells whether the third operand was evaluated.
exceeded_eval(last, current, limit) ==
    IF current = 0
    THEN [value |-> TRUE, subtracted |-> FALSE, underflow |-> FALSE]
    ELSE IF last > current
    THEN [value |-> TRUE, subtracted |-> FALSE, underflow |-> FALSE]
    ELSE LET d == wrapping_sub(current, last) IN
         [value |-> d.value > limit, subtracted |-> TRUE, underflow |-> d.underflow]

exceeded(last, current, limit) == exceeded_eval(last, current, limit).value

\* The tail blocks dl.tail() may return, one per manifest digest.
Blocks == { [digest |-> d] : d \in Digests }

\* bincode::serialize_into / bincode::deserialize_from on the cache file's
\* bytes: a block is written as its digest; anything else does not parse.
serialize(block) == << block.digest >>

deserialize(bytes) ==
    IF Len(bytes) = 1 /\ bytes[1] \in Digests
    THEN [ok |-> TRUE, block |-> [digest |-> bytes[1]]]
    ELSE [ok |-> FALSE, block |-> [digest |-> 0]]

NoBlock == [digest |-> 0]

\* The cache file <config::CACHE>/tail: absent, or its modification time and
\* its bytes.
NoFile == [exists |-> FALSE, mtime |-> 0, bytes |-> << >>]

\* What a cache file may hold: a serialized block, nothing (truncated), or
\* bytes that are no block.
FileBytes == { serialize(b) : b \in Blocks } \cup { << >>, << 0 >> }

\* timestamp::modified_since_unix(path): the file's modification time; Err
\* when the file is absent, and possibly when its metadata cannot be read.
modified_since_unix(file) ==
    { [ok |-> FALSE, modified |-> 0] }
    \cup IF file.exists THEN { [ok |-> TRUE, modified |-> file.mtime] } ELSE {}

\* No cached_block call has been made yet.
IdleCall ==
    [pc |-> "idle", result |-> "none", block |-> NoBlock,
     statOk |-> FALSE, modified |-> 0, now |-> 0,
     checked |-> FALSE, stale |-> FALSE, subtracted |-> FALSE, underflow |-> FALSE,
     refreshes |-> 0, fetched |-> NoBlock, before |-> NoFile]

NoPrevious == [refreshed |-> FALSE, failed |-> FALSE, block |-> NoBlock]

\* -------------------------------------------------------------------- state
\* Strings to ask model_is_whitelisted about: the entries, their proper
\* prefixes, their extensions by a suffix, and case variants of entries.
ProperPrefixes(e) == { SubSeq(e, 1, k) : k \in 0 .. (Len(e) - 1) }

Suffixes == { "-b", "-ess", ".1", "0", "x" }

Extensions(e) == { e \o x : x \in Suffixes }

\* << variant, entry >>: the variant differs from the entry in case only.
CaseVariants ==
    { << "GALP3", "galp3" >>, << "Galp3-b", "galp3-b" >>,
      << "ORYP4", "oryp4" >>, << "Thelio-b1", "thelio-b1" >>,
      << "thelio-major-B1.1", "thelio-major-b1.1" >>, << "Serw11", "serw11" >> }

Probes ==
    MODEL_WHITELIST
        \cup UNION { ProperPrefixes(e) : e \in MODEL_WHITELIST }
        \cup UNION { Extensions(e) : e \in MODEL_WHITELIST }
        \cup { v[1] : v \in CaseVariants }

\* No pure function has been applied yet.
NoResult ==
    [op |-> "none", flag |-> FALSE, biosOk |-> FALSE, ok |-> FALSE,
     id |-> "", earlier |-> ""]

VARIABLES
    bootFlag,     \* the one-shot "run the updater on next boot" flag
    updaterDir,   \* /boot/efi/system76-firmware-update
    updaterTmp,   \* the TempDir created in /boot/efi by the latest schedule()
    model,        \* board model reported by bios::bios()
    ecProject,    \* project string reported by ec::ec_or_none(true)
    uefi,         \* whether /sys/firmware/efi exists
    pc,           \* position inside the running call, "idle" between calls
    call,         \* the running (or latest) call
    digest,       \* schedule()'s argument / download()'s tail digest
    fid,          \* the firmware id computed by the running call
    result,       \* "none" while running, else "Ok" or the error
    steps,        \* the operations the running call has attempted, in order
    pre,          \* boot flag and boot-visible directory when the call began
    prev,         \* whether the call completed right before the running (or
                  \* latest) one was an unschedule() that returned Ok
    cacheFile,    \* the pointer cache file <config::CACHE>/tail
    clock,        \* the system clock, seconds since the UNIX epoch
    staleAfter,   \* cached_block's stale_after argument
    cb,           \* the running (or latest) cached_block call
    pure,         \* the latest application of model_is_whitelisted or firmware_id
    cbPrev        \* what the cached_block call before that one did

vars == << bootFlag, updaterDir, updaterTmp, model, ecProject, uefi,
           pc, call, digest, fid, result, steps, pre, prev,
           cacheFile, clock, staleAfter, cb, cbPrev, pure >>

\* The pointer cache; schedule(), unschedule() and the steps of download()
\* other than cached_block do not touch it.
tail == << cacheFile, clock, staleAfter, cb, cbPrev >>

env == << model, ecProject, uefi, tail, pure >>
disk == << bootFlag, updaterDir, updaterTmp >>

Init ==
    /\ bootFlag = FALSE
    /\ updaterDir = NoDir
    /\ updaterTmp = NoDir
    /\ model \in BoardModels
    /\ ecProject \in EcProjects
    /\ uefi \in BOOLEAN
    /\ pc = "idle"
    /\ call = "none"
    /\ digest = 1
    /\ fid = ""
    /\ result = "none"
    /\ steps = << >>
    /\ pre = [flag |-> FALSE, dir |-> NoDir]
    /\ prev = FALSE
    /\ cacheFile = NoFile
    /\ clock = 1
    /\ staleAfter = MaxStale
    /\ cb = IdleCall
    /\ cbPrev = NoPrevious
    /\ pure = NoResult

Log(op, ok) == steps' = Append(steps, [op |-> op, ok |-> ok])

\* A failed step followed by the removal of the temporary directory.
LogCleanup(op, cleanup, ok) ==
    steps' = steps \o << [op |-> op, ok |-> FALSE], [op |-> cleanup, ok |-> ok] >>

\* A call begins: remember what it starts from.
Begin(c, first) ==
    /\ pc = "idle"
    /\ call' = c
    /\ pc' = first
    /\ result' = "none"
    /\ steps' = << >>
    /\ fid' = ""
    /\ pre' = [flag |-> bootFlag, dir |-> updaterDir]
    /\ prev' = (call = "unschedule" /\ result = "Ok")

\* The call returns `res`.
Return(res) ==
    /\ pc' = "idle"
    /\ result' = res

\* ----------------------------------------------------------------- schedule
ScheduleCall ==
    /\ \E d \in Digests : digest' = d
    /\ Begin("schedule", "s_firmware_id")
    /\ UNCHANGED << disk, env >>

\* let firmware_id = firmware_id()?;
ScheduleFirmwareId ==
    /\ pc = "s_firmware_id"
    /\ \E biosOk \in BOOLEAN :
         LET r == firmware_id(biosOk, model, ecProject) IN
         /\ Log("firmware_id", r.ok)
         /\ IF r.ok
            THEN /\ fid' = r.val
                 /\ pc' = "s_uefi"
                 /\ UNCHANGED result
            ELSE /\ Return(r.val)
                 /\ UNCHANGED fid
    /\ UNCHANGED << disk, env, call, digest, pre, prev >>

\* The UEFI check made only after the boot flag has been cleared.
ScheduleUefi_afterUnset ==
    /\ pc = "s_uefi"
    /\ Log("uefi", uefi)
    /\ bootFlag' = FALSE
    /\ IF uefi
       THEN pc' = "s_unset_next_boot" /\ UNCHANGED result
       ELSE Return("must be run using UEFI boot")
    /\ UNCHANGED << updaterDir, updaterTmp, env, call, digest, fid, pre, prev >>

\* if ! Path::new("/sys/firmware/efi").exists() { return Err(...) }
ScheduleUefi ==
    /\ pc = "s_uefi"
    /\ Log("uefi", uefi)
    /\ IF uefi
       THEN pc' = "s_unset_next_boot" /\ UNCHANGED result
       ELSE Return("must be run using UEFI boot")
    /\ UNCHANGED << disk, env, call, digest, fid, pre, prev >>

\* unset_next_boot's error dropped: let _ = boot::unset_next_boot();
ScheduleUnsetNextBoot_ignored ==
    /\ pc = "s_unset_next_boot"
    /\ \E ok \in BOOLEAN :
         /\ bootFlag' = unset_next_boot(ok, bootFlag)
         /\ Log("unset_next_boot", ok)
         /\ pc' = "s_remove_dir"
         /\ UNCHANGED result
    /\ UNCHANGED << updaterDir, updaterTmp, env, call, digest, fid, pre, prev >>

\* boot::unset_next_boot()?;
ScheduleUnsetNextBoot ==
    /\ pc = "s_unset_next_boot"
    /\ \E ok \in BOOLEAN :
         /\ bootFlag' = unset_next_boot(ok, bootFlag)
         /\ Log("unset_next_boot", ok)
         /\ IF ok
            THEN pc' = "s_remove_dir" /\ UNCHANGED result
            ELSE Return("unset_next_boot")
    /\ UNCHANGED << updaterDir, updaterTmp, env, call, digest, fid, pre, prev >>

\* remove_dir's error dropped: let _ = remove_dir(&updater_dir);
ScheduleRemoveDir_ignored ==
    /\ pc = "s_remove_dir"
    /\ \E o \in remove_dir(updaterDir) :
         /\ updaterDir' = o.dir
         /\ Log("remove_dir", o.ok)
         /\ pc' = "s_tempdir"
         /\ UNCHANGED result
    /\ UNCHANGED << bootFlag, updaterTmp, env, call, digest, fid, pre, prev >>

\* remove_dir(&updater_dir)?;
ScheduleRemoveDir ==
    /\ pc = "s_remove_dir"
    /\ \E o \in remove_dir(updaterDir) :
         /\ updaterDir' = o.dir
         /\ Log("remove_dir", o.ok)
         /\ IF o.ok
            THEN pc' = "s_tempdir" /\ UNCHANGED result
            ELSE Return("failed to remove")
    /\ UNCHANGED << bootFlag, updaterTmp, env, call, digest, fid, pre, prev >>

\* tempdir::TempDir::new_in("/boot/efi", "system76-firmware-update")
ScheduleTempDir ==
    /\ pc = "s_tempdir"
    /\ \E ok \in BOOLEAN :
         /\ Log("tempdir", ok)
         /\ IF ok
            THEN /\ updaterTmp' = EmptyDir
                 /\ pc' = "s_extract_updater"
                 /\ UNCHANGED result
            ELSE /\ Return("failed to create temporary directory")
                 /\ UNCHANGED updaterTmp
    /\ UNCHANGED << bootFlag, updaterDir, env, call, digest, fid, pre, prev >>

\* The temp directory kept (into_path) before the extraction: an early
\* return leaves it behind.
ScheduleExtractUpdater_leak ==
    /\ pc = "s_extract_updater"
    /\ \E o \in extract(digest, updater_file, updaterTmp, "") :
         /\ Log("extract_updater", o.ok)
         /\ updaterTmp' = o.dir
         /\ IF o.ok
            THEN pc' = "s_extract_firmware" /\ UNCHANGED result
            ELSE Return(o.err)
    /\ UNCHANGED << bootFlag, updaterDir, env, call, digest, fid, pre, prev >>

\* extract(digest, updater_file, updater_tmp.path())?;
\* an early return drops the TempDir, which removes it and ignores a failure.
ScheduleExtractUpdater ==
    /\ pc = "s_extract_updater"
    /\ \E o \in extract(digest, updater_file, updaterTmp, "") :
         IF o.ok
         THEN /\ Log("extract_updater", TRUE)
              /\ updaterTmp' = o.dir
              /\ pc' = "s_extract_firmware"
              /\ UNCHANGED result
         ELSE /\ \E c \in remove_dir_all(o.dir) :
                   /\ updaterTmp' = c.dir
                   /\ LogCleanup("extract_updater", "drop_tmp", c.ok)
              /\ Return(o.err)
    /\ UNCHANGED << bootFlag, updaterDir, env, call, digest, fid, pre, prev >>

\* The firmware unpacked into the temp directory's root, not into firmware/.
ScheduleExtractFirmware_root ==
    /\ pc = "s_extract_firmware"
    /\ \E o \in extract(digest, firmware_file(fid), updaterTmp, "") :
         IF o.ok
         THEN /\ Log("extract_firmware", TRUE)
              /\ updaterTmp' = o.dir
              /\ pc' = "s_rename"
              /\ UNCHANGED result
         ELSE /\ \E c \in remove_dir_all(o.dir) :
                   /\ updaterTmp' = c.dir
                   /\ LogCleanup("extract_firmware", "drop_tmp", c.ok)
              /\ Return(o.err)
    /\ UNCHANGED << bootFlag, updaterDir, env, call, digest, fid, pre, prev >>

\* extract(digest, &firmware_file, &updater_tmp.path().join("firmware"))?;
ScheduleExtractFirmware ==
    /\ pc = "s_extract_firmware"
    /\ \E o \in extract(digest, firmware_file(fid), updaterTmp, "firmware") :
         IF o.ok
         THEN /\ Log("extract_firmware", TRUE)
              /\ updaterTmp' = o.dir
              /\ pc' = "s_rename"
              /\ UNCHANGED result
         ELSE /\ \E c \in remove_dir_all(o.dir) :
                   /\ updaterTmp' = c.dir
                   /\ LogCleanup("extract_firmware", "drop_tmp", c.ok)
              /\ Return(o.err)
    /\ UNCHANGED << bootFlag, updaterDir, env, call, digest, fid, pre, prev >>

\* A failed rename that returns without removing the temp directory.
ScheduleRename_nocleanup ==
    /\ pc = "s_rename"
    /\ \E o \in fs_rename(updaterTmp, updaterDir) :
         /\ updaterDir' = o.to
         /\ updaterTmp' = o.from
         /\ Log("rename", o.ok)
         /\ IF o.ok
            THEN pc' = "s_set_next_boot" /\ UNCHANGED result
            ELSE Return("failed to move")
    /\ UNCHANGED << bootFlag, env, call, digest, fid, pre, prev >>

\* The temp directory moved by copying: a failure leaves part of it at the
\* boot-visible path.
ScheduleRename_copy ==
    /\ pc = "s_rename"
    /\ \E o \in fs_rename(updaterTmp, updaterDir) :
         IF o.ok
         THEN /\ Log("rename", TRUE)
              /\ updaterDir' = o.to
              /\ updaterTmp' = o.from
              /\ pc' = "s_set_next_boot"
              /\ UNCHANGED result
         ELSE /\ \E S \in SUBSET updaterTmp.files :
                   updaterDir' = [exists |-> TRUE, files |-> updaterDir.files \cup S]
              /\ \E c \in remove_dir(o.from) :
                   /\ updaterTmp' = c.dir
                   /\ LogCleanup("rename", "remove_tmp", c.ok)
              /\ Return("failed to move")
    /\ UNCHANGED << bootFlag, env, call, digest, fid, pre, prev >>

\* A failed rename that falls through to set_next_boot.
ScheduleRename_fallthrough ==
    /\ pc = "s_rename"
    /\ \E o \in fs_rename(updaterTmp, updaterDir) :
         /\ updaterDir' = o.to
         /\ updaterTmp' = o.from
         /\ Log("rename", o.ok)
         /\ pc' = "s_set_next_boot"
         /\ UNCHANGED result
    /\ UNCHANGED << bootFlag, env, call, digest, fid, pre, prev >>

\* fs::rename(&updater_tmp_dir, &updater_dir); on failure
\* let _ = remove_dir(&updater_tmp_dir); return Err(...)
ScheduleRename ==
    /\ pc = "s_rename"
    /\ \E o \in fs_rename(updaterTmp, updaterDir) :
         /\ updaterDir' = o.to
         /\ IF o.ok
            THEN /\ Log("rename", TRUE)
                 /\ updaterTmp' = o.from
                 /\ pc' = "s_set_next_boot"
                 /\ UNCHANGED result
            ELSE /\ \E c \in remove_dir(o.from) :
                      /\ updaterTmp' = c.dir
                      /\ LogCleanup("rename", "remove_tmp", c.ok)
                 /\ Return("failed to move")
    /\ UNCHANGED << bootFlag, env, call, digest, fid, pre, prev >>

\* set_next_boot's error dropped: schedule() returns Ok whatever happened.
ScheduleSetNextBoot_ignored ==
    /\ pc = "s_set_next_boot"
    /\ \E ok \in BOOLEAN :
         /\ bootFlag' = set_next_boot(ok, bootFlag)
         /\ Log("set_next_boot", ok)
         /\ Return("Ok")
    /\ UNCHANGED << updaterDir, updaterTmp, env, call, digest, fid, pre, prev >>

\* boot::set_next_boot()?; Ok(())
ScheduleSetNextBoot ==
    /\ pc = "s_set_next_boot"
    /\ \E ok \in BOOLEAN :
         /\ bootFlag' = set_next_boot(ok, bootFlag)
         /\ Log("set_next_boot", ok)
         /\ Return(IF ok THEN "Ok" ELSE "set_next_boot")
    /\ UNCHANGED << updaterDir, updaterTmp, env, call, digest, fid, pre, prev >>

\* --------------------------------------------------------------- unschedule
UnscheduleCall ==
    /\ Begin("unschedule", "u_unset_next_boot")
    /\ UNCHANGED << disk, env, digest >>

\* boot::unset_next_boot()?;
UnscheduleUnsetNextBoot ==
    /\ pc = "u_unset_next_boot"
    /\ \E ok \in BOOLEAN :
         /\ bootFlag' = unset_next_boot(ok, bootFlag)
         /\ Log("unset_next_boot", ok)
         /\ IF ok
            THEN pc' = "u_remove_dir" /\ UNCHANGED result
            ELSE Return("unset_next_boot")
    /\ UNCHANGED << updaterDir, updaterTmp, env, call, digest, fid, pre, prev >>

\* remove_dir(&updater_dir)?; Ok(())
UnscheduleRemoveDir ==
    /\ pc = "u_remove_dir"
    /\ \E o \in remove_dir(updaterDir) :
         /\ updaterDir' = o.dir
         /\ Log("remove_dir", o.ok)
         /\ Return(IF o.ok THEN "Ok" ELSE "failed to remove")
    /\ UNCHANGED << bootFlag, updaterTmp, env, call, digest, fid, pre, prev >>

\* ----------------------------------------------------------------- download
DownloadCall ==
    /\ Begin("download", "d_firmware_id")
    /\ UNCHANGED << disk, env, digest >>

\* let firmware_id = firmware_id()?;
DownloadFirmwareId ==
    /\ pc = "d_firmware_id"
    /\ \E biosOk \in BOOLEAN :
         LET r == firmware_id(biosOk, model, ecProject) IN
         /\ Log("firmware_id", r.ok)
         /\ IF r.ok
            THEN /\ fid' = r.val
                 /\ pc' = "d_downloader"
                 /\ UNCHANGED result
            ELSE /\ Return(r.val)
                 /\ UNCHANGED fid
    /\ UNCHANGED << disk, env, call, digest, pre, prev >>

\* let dl = Downloader::new(...)?;
DownloadDownloader ==
    /\ pc = "d_downloader"
    /\ \E ok \in BOOLEAN :
         /\ Log("Downloader::new", ok)
         /\ IF ok
            THEN pc' = "d_tail" /\ UNCHANGED result
            ELSE Return("downloader")
    /\ UNCHANGED << disk, env, call, digest, fid, pre, prev >>

\* let tail = cached_block(&path, SECONDS_IN_DAY, || dl.tail())?;
\* Here only the outcome of cached_block: the cache file, the clock and the
\* refresh are followed step by step in SpecCache.
DownloadTail ==
    /\ pc = "d_tail"
    /\ \E ok \in BOOLEAN, d \in Digests :
         /\ Log("cached_block", ok)
         /\ IF ok
            THEN /\ digest' = d
                 /\ pc' = "d_manifest"
                 /\ UNCHANGED result
            ELSE /\ Return("tail")
                 /\ UNCHANGED digest
    /\ UNCHANGED << disk, env, call, fid, pre, prev >>

\* let cache = download::Cache::new(config::CACHE, Some(dl))?;
\* let manifest_json = cache.object(&tail.digest)?; serde_json::from_slice
DownloadManifest ==
    /\ pc = "d_manifest"
    /\ \E ok \in BOOLEAN :
         /\ Log("manifest", ok)
         /\ IF ok
            THEN pc' = "d_updater" /\ UNCHANGED result
            ELSE Return("cache")
    /\ UNCHANGED << disk, env, call, digest, fid, pre, prev >>

\* let digest = manifest.files.get(file).ok_or(format!("{} not found", file))?;
\* cache.object(&digest)?
manifest_object(d, file) ==
    IF file \in ManifestFiles(d)
    THEN { [ok |-> TRUE, err |-> ""], [ok |-> FALSE, err |-> "cache"] }
    ELSE { [ok |-> FALSE, err |-> "not found"] }

DownloadUpdater ==
    /\ pc = "d_updater"
    /\ \E o \in manifest_object(digest, updater_file) :
         /\ Log("updater_object", o.ok)
         /\ IF o.ok
            THEN pc' = "d_firmware" /\ UNCHANGED result
            ELSE Return(o.err)
    /\ UNCHANGED << disk, env, call, digest, fid, pre, prev >>

DownloadFirmware ==
    /\ pc = "d_firmware"
    /\ \E o \in manifest_object(digest, firmware_file(fid)) :
         /\ Log("firmware_object", o.ok)
         /\ IF o.ok
            THEN pc' = "d_changelog" /\ UNCHANGED result
            ELSE Return(o.err)
    /\ UNCHANGED << disk, env, call, digest, fid, pre, prev >>

\* util::extract_file(&firmware_data, "./changelog.json")?; Ok((digest, changelog))
DownloadChangelog ==
    /\ pc = "d_changelog"
    /\ \E ok \in BOOLEAN :
         /\ Log("changelog", ok)
         /\ Return(IF ok THEN "Ok" ELSE "changelog")
    /\ UNCHANGED << disk, env, call, digest, fid, pre, prev >>

\* ------------------------------------------------------------- environment
\* Between two calls the machine may be restarted in the other boot mode
\* (UEFI or legacy), which makes /sys/firmware/efi appear or disappear; the
\* calls made before the restart are no longer "the latest call".
BootModeChange ==
    /\ pc = "idle"
    /\ uefi' = ~ uefi
    /\ call' = "none"
    /\ result' = "none"
    /\ steps' = << >>
    /\ fid' = ""
    /\ pre' = [flag |-> bootFlag, dir |-> updaterDir]
    /\ prev' = FALSE
    /\ UNCHANGED << disk, model, ecProject, pc, digest, tail, pure >>

Next ==
    \/ ScheduleCall
    \/ ScheduleFirmwareId
    \/ ScheduleUefi
    \/ ScheduleUnsetNextBoot
    \/ ScheduleRemoveDir
    \/ ScheduleTempDir
    \/ ScheduleExtractUpdater
    \/ ScheduleExtractFirmware
    \/ ScheduleRename
    \/ ScheduleSetNextBoot
    \/ UnscheduleCall
    \/ UnscheduleUnsetNextBoot
    \/ UnscheduleRemoveDir
    \/ DownloadCall
    \/ DownloadFirmwareId
    \/ DownloadDownloader
    \/ DownloadTail
    \/ DownloadManifest
    \/ DownloadUpdater
    \/ DownloadFirmware
    \/ DownloadChangelog
    \/ BootModeChange

Spec == Init /\ [][Next]_vars

\* ------------------------------------------------------------- cached_block
\* download() calls cached_block(<CACHE>/tail, SECONDS_IN_DAY, || dl.tail());
\* the call is followed here step by step over the cache file and the clock,
\* with the staleness limit and the file found at start drawn from small sets.
rest == << bootFlag, updaterDir, updaterTmp, model, ecProject, uefi,
           pc, call, digest, fid, result, steps, pre, prev, pure >>

InitCache ==
    /\ bootFlag = FALSE
    /\ updaterDir = NoDir
    /\ updaterTmp = NoDir
    /\ model = "galp3"
    /\ ecProject = ""
    /\ uefi = TRUE
    /\ pc = "idle"
    /\ call = "none"
    /\ digest = 1
    /\ fid = ""
    /\ result = "none"
    /\ steps = << >>
    /\ pre = [flag |-> FALSE, dir |-> NoDir]
    /\ prev = FALSE
    /\ cacheFile \in {NoFile} \cup
         { [exists |-> TRUE, mtime |-> t, bytes |-> b] : t \in Times, b \in FileBytes }
    /\ clock \in Times
    /\ staleAfter \in 0 .. MaxStale
    /\ cb = IdleCall
    /\ cbPrev = NoPrevious
    /\ pure = NoResult

\* The call needed a refresh: the file was absent, or found stale.
NeededRefresh(c) == ~ c.before.exists \/ (c.statOk /\ c.checked /\ c.stale)

CachedBlockCall ==
    /\ cb.pc = "idle"
    /\ cb' = [IdleCall EXCEPT !.pc = "stat", !.before = cacheFile]
    /\ cbPrev' = [refreshed |-> cb.result = "Ok" /\ cb.refreshes = 1,
                  failed    |-> cb.result = "refresh" /\ NeededRefresh(cb),
                  block     |-> cb.block]
    /\ UNCHANGED << cacheFile, clock, staleAfter, rest >>

\* match timestamp::modified_since_unix(&path) { Ok(modified) => .., Err(_) => .. }
CachedBlockStat ==
    /\ cb.pc = "stat"
    /\ \E o \in modified_since_unix(cacheFile) :
         cb' = [cb EXCEPT !.statOk = o.ok,
                          !.modified = o.modified,
                          !.pc = IF o.ok THEN "read_cache" ELSE "update_cache"]
    /\ UNCHANGED << cacheFile, clock, staleAfter, cbPrev, rest >>

\* A corrupt cache treated as a miss: a deserialization failure falls back to
\* the refresh.
CachedBlockReadCache_fallback ==
    /\ cb.pc = "read_cache"
    /\ LET e == exceeded_eval(cb.modified, clock, staleAfter)
           c == [cb EXCEPT !.now = clock, !.checked = TRUE, !.stale = e.value,
                           !.subtracted = e.subtracted, !.underflow = e.underflow]
           d == deserialize(cacheFile.bytes)
       IN  IF e.value
           THEN cb' = [c EXCEPT !.pc = "update_cache"]
           ELSE \E openOk \in BOOLEAN :
                  cb' = IF ~ openOk
                        THEN [c EXCEPT !.pc = "idle", !.result = "open"]
                        ELSE IF d.ok
                        THEN [c EXCEPT !.pc = "idle", !.result = "Ok", !.block = d.block]
                        ELSE [c EXCEPT !.pc = "update_cache"]
    /\ UNCHANGED << cacheFile, clock, staleAfter, cbPrev, rest >>

\* The refresh run even after a fresh cache was read.
CachedBlockReadCache_refreshAnyway ==
    /\ cb.pc = "read_cache"
    /\ LET e == exceeded_eval(cb.modified, clock, staleAfter)
           c == [cb EXCEPT !.now = clock, !.checked = TRUE, !.stale = e.value,
                           !.subtracted = e.subtracted, !.underflow = e.underflow]
       IN  cb' = [c EXCEPT !.pc = "update_cache"]
    /\ UNCHANGED << cacheFile, clock, staleAfter, cbPrev, rest >>

\* read_cache(modified)?: None when stale, else the deserialized file;
\* .map_or_else(update_cache, Result::Ok)
CachedBlockReadCache ==
    /\ cb.pc = "read_cache"
    /\ LET e == exceeded_eval(cb.modified, clock, staleAfter)
           c == [cb EXCEPT !.now = clock, !.checked = TRUE, !.stale = e.value,
                           !.subtracted = e.subtracted, !.underflow = e.underflow]
           d == deserialize(cacheFile.bytes)
       IN  IF e.value
           THEN cb' = [c EXCEPT !.pc = "update_cache"]
           ELSE \E openOk \in BOOLEAN :
                  cb' = IF ~ openOk
                        THEN [c EXCEPT !.pc = "idle", !.result = "open"]
                        ELSE IF d.ok
                        THEN [c EXCEPT !.pc = "idle", !.result = "Ok", !.block = d.block]
                        ELSE [c EXCEPT !.pc = "idle", !.result = "deserialize"]
    /\ UNCHANGED << cacheFile, clock, staleAfter, cbPrev, rest >>

\* update_cache that returns the fetched block without writing the file.
CachedBlockUpdateCache_nowrite ==
    /\ cb.pc = "update_cache"
    /\ \E ok \in BOOLEAN, b \in Blocks :
         LET c == [cb EXCEPT !.refreshes = @ + 1, !.pc = "idle"] IN
         cb' = IF ok
               THEN [c EXCEPT !.result = "Ok", !.block = b, !.fetched = b]
               ELSE [c EXCEPT !.result = "refresh"]
    /\ UNCHANGED << cacheFile, clock, staleAfter, cbPrev, rest >>

\* update_cache that creates the file before it calls func().
CachedBlockUpdateCache_createFirst ==
    /\ cb.pc = "update_cache"
    /\ \E ok \in BOOLEAN, b \in Blocks :
         LET c == [cb EXCEPT !.refreshes = @ + 1, !.pc = "idle"] IN
         IF ok
         THEN /\ cb' = [c EXCEPT !.result = "Ok", !.block = b, !.fetched = b]
              /\ cacheFile' = [exists |-> TRUE, mtime |-> clock, bytes |-> serialize(b)]
         ELSE /\ cb' = [c EXCEPT !.result = "refresh"]
              /\ cacheFile' = [exists |-> TRUE, mtime |-> clock, bytes |-> << >>]
    /\ UNCHANGED << clock, staleAfter, cbPrev, rest >>

\* let block = func()?; let file = fs::File::create(&path)?;
\* bincode::serialize_into(file, &block)?; Ok(block)
CachedBlockUpdateCache ==
    /\ cb.pc = "update_cache"
    /\ \E ok \in BOOLEAN, b \in Blocks, createOk \in BOOLEAN, writeOk \in BOOLEAN :
         LET c == [cb EXCEPT !.refreshes = @ + 1, !.pc = "idle"] IN
         IF ~ ok
         THEN /\ cb' = [c EXCEPT !.result = "refresh"]
              /\ UNCHANGED cacheFile
         ELSE IF ~ createOk
         THEN /\ cb' = [c EXCEPT !.result = "create", !.fetched = b]
              /\ UNCHANGED cacheFile
         ELSE IF ~ writeOk
         THEN /\ cb' = [c EXCEPT !.result = "serialize", !.fetched = b]
              /\ cacheFile' = [exists |-> TRUE, mtime |-> clock, bytes |-> << >>]
         ELSE /\ cb' = [c EXCEPT !.result = "Ok", !.block = b, !.fetched = b]
              /\ cacheFile' = [exists |-> TRUE, mtime |-> clock, bytes |-> serialize(b)]
    /\ UNCHANGED << clock, staleAfter, cbPrev, rest >>

\* Time passes, or the system clock is set: SystemTime is not monotonic.
ClockChange ==
    /\ \E t \in Times \ {clock} : clock' = t
    /\ UNCHANGED << cacheFile, staleAfter, cb, cbPrev, rest >>

NextCache ==
    \/ CachedBlockCall
    \/ CachedBlockStat
    \/ CachedBlockReadCache
    \/ CachedBlockUpdateCache
    \/ ClockChange

SpecCache == InitCache /\ [][NextCache]_vars

\* ------------------------------------- model_is_whitelisted and firmware_id
\* The two functions applied to a board model and an embedded-controller
\* project drawn from the probe strings.
InitPure ==
    /\ bootFlag = FALSE
    /\ updaterDir = NoDir
    /\ updaterTmp = NoDir
    /\ model \in Probes
    /\ ecProject \in EcProjects
    /\ uefi = TRUE
    /\ pc = "idle"
    /\ call = "none"
    /\ digest = 1
    /\ fid = ""
    /\ result = "none"
    /\ steps = << >>
    /\ pre = [flag |-> FALSE, dir |-> NoDir]
    /\ prev = FALSE
    /\ cacheFile = NoFile
    /\ clock = 1
    /\ staleAfter = MaxStale
    /\ cb = IdleCall
    /\ cbPrev = NoPrevious
    /\ pure = NoResult

\* model_is_whitelisted(model)
ModelIsWhitelistedCall ==
    /\ pure' = [NoResult EXCEPT !.op = "model_is_whitelisted",
                                !.flag = model_is_whitelisted(model),
                                !.earlier = pure.earlier]
    /\ UNCHANGED << disk, model, ecProject, uefi, tail,
                    pc, call, digest, fid, result, steps, pre, prev >>

\* firmware_id(); `earlier` keeps the id an earlier successful call returned.
FirmwareIdCall ==
    /\ \E biosOk \in BOOLEAN :
         LET r == firmware_id(biosOk, model, ecProject) IN
         pure' = [op |-> "firmware_id", flag |-> FALSE, biosOk |-> biosOk,
                  ok |-> r.ok, id |-> r.val,
                  earlier |-> IF pure.op = "firmware_id" /\ pure.ok
                              THEN pure.id ELSE pure.earlier]
    /\ UNCHANGED << disk, model, ecProject, uefi, tail,
                    pc, call, digest, fid, result, steps, pre, prev >>

NextPure ==
    \/ ModelIsWhitelistedCall
    \/ FirmwareIdCall

SpecPure == InitPure /\ [][NextPure]_vars

\* ------------------------------------------------------------ vocabulary
\* The firmware id of this machine when bios::bios() succeeds.
FirmwareId == firmware_id(TRUE, model, ecProject).val

\* The directory is a complete artifact committed by some schedule() call.
Committed(dir) == \E d \in Digests : dir = Artifact(d, FirmwareId)

\* The directory holds what is left of a committed artifact.
Remains(dir) ==
    /\ dir.exists
    /\ \E d \in Digests : dir.files \subseteq Artifact(d, FirmwareId).files

Completed(c) == pc = "idle" /\ call = c

UefiError == "must be run using UEFI boot"

\* schedule()'s operations in program order.
ScheduleOrder ==
    << "firmware_id", "uefi", "unset_next_boot", "remove_dir", "tempdir",
       "extract_updater", "extract_firmware", "rename", "set_next_boot" >>

\* The logged operations without the temp directory clean-ups.
MainSteps == SelectSeq(steps, LAMBDA e : e.op \notin {"drop_tmp", "remove_tmp"})

\* The attempted operations that reach the network, the cache, the boot flag
\* or the boot partition: all but the hardware-identity read, the UEFI test
\* and the construction of the downloader.
Touched ==
    { steps[i].op : i \in DOMAIN steps } \ {"firmware_id", "uefi", "Downloader::new"}

NoStepFailed == \A i \in DOMAIN steps : steps[i].ok

\* ------------------------------------------------------------------ claims

\* C1: in every state, also inside a call and after a failed call, the boot
\* flag is set only if a complete, committed artifact is at the boot-visible
\* path.
C1_FlagImpliesArtifact == bootFlag => Committed(updaterDir)

\* C1 witness: a call that failed left the flag set over a committed artifact.
C1_Witness ==
    /\ pc = "idle" /\ result \notin {"none", "Ok"}
    /\ bootFlag /\ Committed(updaterDir)

\* C2 as stated: after every completed schedule() or unschedule(), the boot
\* flag is set if and only if a complete artifact is at the boot-visible path.
C2_FlagIffArtifact ==
    (Completed("schedule") \/ Completed("unschedule"))
        => (bootFlag <=> Committed(updaterDir))

\* C2 amended: after every completed schedule() or unschedule() the flag is
\* set only if a complete artifact is present, and after a call that returned
\* Ok it is set if and only if one is present.
C2_FlagIffArtifactWhenOk ==
    (Completed("schedule") \/ Completed("unschedule"))
        => /\ bootFlag => Committed(updaterDir)
           /\ result = "Ok" => (bootFlag <=> Committed(updaterDir))
           /\ result = "Ok" => (bootFlag <=> call = "schedule")

\* C2 witness: set_next_boot failed after the commit, so a complete artifact
\* is present and the flag is clear.
C2_Witness ==
    /\ Completed("schedule") /\ result = "set_next_boot"
    /\ ~ bootFlag /\ Committed(updaterDir)

\* C3 as stated: schedule() ends either with the new artifact committed and
\* the flag set, or with the boot-visible path and the flag as they were
\* before the call.
C3_AllOrNothing ==
    Completed("schedule")
        => \/ updaterDir = Artifact(digest, fid) /\ bootFlag
           \/ updaterDir = pre.dir /\ bootFlag = pre.flag

\* C3 amended: schedule() ends with the new artifact committed and the flag
\* set (Ok); or with flag and path as before the call (firmware_id, UEFI test
\* or unset_next_boot failed); or with the flag clear and the path holding
\* what the failed removal left of the old directory (remove_dir failed),
\* nothing (temp creation, an extraction or the rename failed), or the new
\* artifact (set_next_boot failed).
C3_AllOrCleared ==
    Completed("schedule")
        => \/ /\ result = "Ok"
              /\ updaterDir = Artifact(digest, fid) /\ bootFlag
           \/ /\ result \in {"bios", UefiError, "unset_next_boot"}
              /\ updaterDir = pre.dir /\ bootFlag = pre.flag
           \/ /\ result = "failed to remove"
              /\ ~ bootFlag
              /\ pre.dir.exists /\ updaterDir.exists
              /\ updaterDir.files \subseteq pre.dir.files
           \/ /\ result \in {"failed to create temporary directory", "cache",
                             "not found", "failed to extract", "failed to move"}
              /\ ~ bootFlag /\ updaterDir = NoDir
           \/ /\ result = "set_next_boot"
              /\ ~ bootFlag /\ updaterDir = Artifact(digest, fid)

\* C3 witness: a schedule() over a scheduled update failed after the old
\* directory was removed; flag and path are not what they were.
C3_Witness ==
    /\ Completed("schedule") /\ result = "failed to extract"
    /\ pre.flag /\ pre.dir.exists
    /\ ~ bootFlag /\ updaterDir = NoDir

\* C4 as stated: when both extractions succeed and the rename fails,
\* schedule() returns an error, the temp directory is removed, the
\* boot-visible path is as it was before the call and the flag is unset.
C4_RenameFailureRestores ==
    (Completed("schedule") /\ result = "failed to move")
        => /\ ~ updaterTmp.exists
           /\ updaterDir = pre.dir
           /\ ~ bootFlag

\* C4 amended: when both extractions succeed and the rename fails, schedule()
\* returns an error, the removal of the temp directory is attempted and the
\* directory is gone unless that removal fails (which is ignored), the
\* boot-visible path is absent (a previous artifact was removed before
\* staging) and the flag is unset.
C4_RenameFailureClears ==
    (Completed("schedule") /\ result = "failed to move")
        => /\ Len(steps) = 9
           /\ steps[6] = [op |-> "extract_updater", ok |-> TRUE]
           /\ steps[7] = [op |-> "extract_firmware", ok |-> TRUE]
           /\ steps[8] = [op |-> "rename", ok |-> FALSE]
           /\ steps[9].op = "remove_tmp"
           /\ steps[9].ok => updaterTmp = NoDir
           /\ updaterDir = NoDir
           /\ ~ bootFlag

\* C4 witness: the rename failed over a previously scheduled update and the
\* temp directory could not be removed.
C4_Witness ==
    /\ Completed("schedule") /\ result = "failed to move"
    /\ pre.dir.exists /\ pre.flag
    /\ updaterTmp.exists

\* C5 as stated: at every point the boot-visible path is absent or holds a
\* complete, committed artifact.
C5_AbsentOrComplete == updaterDir.exists => Committed(updaterDir)

C5_Inv ==
    updaterDir.exists
        => \/ Committed(updaterDir)
           \/ ~ bootFlag /\ Remains(updaterDir)

C5_Step ==
    \/ updaterDir' = updaterDir
    \/ ~ updaterDir.exists /\ Committed(updaterDir')
    \/ /\ updaterDir.exists /\ ~ bootFlag
       /\ updaterDir'.files \subseteq updaterDir.files

\* C5 amended: the boot-visible path is never partially written: content
\* appears there only as a complete artifact, in one step, at a path that did
\* not exist; it is absent, a complete committed artifact, or, with the boot
\* flag clear, what a failed removal left of a committed artifact.
C5_NeverPartiallyWritten == [] C5_Inv /\ [][C5_Step]_vars

\* C5 witness: a failed removal inside unschedule() left part of an artifact.
C5_Witness ==
    /\ Completed("unschedule") /\ result = "failed to remove"
    /\ updaterDir.exists /\ ~ Committed(updaterDir)

\* C6: schedule() runs its steps in program order (clear flag, remove old
\* directory, create temp, extract updater, extract firmware, rename, set
\* flag); a failed step ends the call with no later step run, so the flag is
\* set only after the rename succeeded.
C6_StepOrder ==
    call = "schedule"
        => /\ Len(MainSteps) <= Len(ScheduleOrder)
           /\ \A i \in DOMAIN MainSteps : MainSteps[i].op = ScheduleOrder[i]
           /\ \A i \in DOMAIN MainSteps : i < Len(MainSteps) => MainSteps[i].ok
           /\ (~ NoStepFailed) => pc = "idle"
           /\ (pc # "idle") => pc = "s_" \o ScheduleOrder[Len(MainSteps) + 1]
           /\ (pc = "idle" /\ NoStepFailed) => Len(MainSteps) = Len(ScheduleOrder)

\* C6 witness: a schedule() that ran all its steps.
C6_Witness ==
    /\ Completed("schedule") /\ result = "Ok"
    /\ Len(steps) = Len(ScheduleOrder)

\* C7 as stated: from any reachable state unschedule() called twice in a row
\* returns Ok both times and leaves the flag clear and the directory absent;
\* the second call changes nothing.
C7_TwiceAlwaysOk ==
    Completed("unschedule")
        => /\ result = "Ok"
           /\ ~ bootFlag /\ updaterDir = NoDir
           /\ prev => (bootFlag = pre.flag /\ updaterDir = pre.dir)

\* C7 amended: an unschedule() that returns Ok leaves the flag clear and the
\* directory absent; an unschedule() that finds the directory absent, with or
\* without a prior schedule(), leaves it absent and returns Ok unless
\* boot::unset_next_boot itself fails; an unschedule() right after one that
\* returned Ok changes nothing.
C7_IdempotentWhenOk ==
    Completed("unschedule")
        => /\ result = "Ok" => (~ bootFlag /\ updaterDir = NoDir)
           /\ (~ pre.dir.exists)
                => /\ updaterDir = NoDir
                   /\ result \in {"Ok", "unset_next_boot"}
           /\ prev
                => /\ bootFlag = pre.flag /\ updaterDir = pre.dir
                   /\ ~ bootFlag /\ updaterDir = NoDir
                   /\ result \in {"Ok", "unset_next_boot"}

\* C7 witness: the second of two unschedule() calls that both returned Ok.
C7_Witness ==
    /\ Completed("unschedule") /\ result = "Ok"
    /\ prev

\* C8: when no step fails, schedule(digest) ends from any starting state with
\* the boot-visible directory holding exactly the updater archive's files at
\* its root and the firmware archive's files under firmware/, nothing of a
\* previous artifact, and the flag set.
C8_ScheduleResult ==
    (Completed("schedule") /\ NoStepFailed)
        => /\ result = "Ok"
           /\ bootFlag
           /\ firmware_file(fid) \in ManifestFiles(digest)
           /\ updaterDir.exists
           /\ updaterDir.files =
                { Entry("", digest, updater_file, i) : i \in 1 .. FilesPerArchive }
                \cup { Entry("firmware", digest, firmware_file(fid), i)
                         : i \in 1 .. FilesPerArchive }

\* C8 witness: a successful schedule() over a different, previously scheduled
\* update.
C8_Witness ==
    /\ Completed("schedule") /\ result = "Ok"
    /\ pre.flag /\ pre.dir.exists /\ pre.dir # updaterDir

\* C9: with a board model outside the allow-list, schedule() and download()
\* fail before any fetch, cache access, extraction, directory removal or
\* boot-flag change is attempted.
C9_GateFirst ==
    (call \in {"schedule", "download"} /\ ~ model_is_whitelisted(model))
        => /\ Touched = {}
           /\ pc = "idle" => result # "Ok"

\* C10 as stated: without /sys/firmware/efi, schedule() returns "must be run
\* using UEFI boot" and changes nothing.
C10_UefiErrorAlways ==
    (Completed("schedule") /\ ~ uefi)
        => /\ result = UefiError
           /\ Touched = {}
           /\ bootFlag = pre.flag /\ updaterDir = pre.dir

C10_Inv ==
    (Completed("schedule") /\ ~ uefi)
        => /\ result = (IF steps[1].ok THEN UefiError ELSE "bios")
           /\ Touched = {}
           /\ bootFlag = pre.flag /\ updaterDir = pre.dir

C10_Step == (call' = "schedule" /\ ~ uefi) => UNCHANGED disk

\* C10 amended: without /sys/firmware/efi, schedule() returns "must be run
\* using UEFI boot" if firmware_id() succeeds and firmware_id()'s error if it
\* fails; either way no step of the call changes the boot flag, the
\* boot-visible directory or the boot partition.
C10_UefiErrorAfterFirmwareId == [] C10_Inv /\ [][C10_Step]_vars

\* C10 witness: the UEFI error returned over a scheduled update left intact.
C10_Witness ==
    /\ Completed("schedule") /\ ~ uefi /\ result = UefiError
    /\ bootFlag /\ Committed(updaterDir)

\* ------------------------------------------------- claims on the pointer cache
\* modifiedTime, now and the limit as mathematical integers: stale when the
\* clock reads 0, the file is newer than the clock, or its age exceeds S.
Stale(modifiedTime, now, S) ==
    now = 0 \/ modifiedTime > now \/ now - modifiedTime > S

\* The cached_block call has returned.
Returned == cb.pc = "idle" /\ cb.result # "none"

\* The call found the file (stat succeeded) and within the staleness window.
FoundFresh == cb.statOk /\ cb.checked /\ ~ Stale(cb.modified, cb.now, staleAfter)

\* C11: exceeded(modifiedTime, now, S) is true exactly when now = 0, or
\* modifiedTime > now, or now - modifiedTime > S; age S is not stale, age S + 1
\* is stale, and now = 0 or modifiedTime > now force staleness.
C11_ExceededExact ==
    cb.checked
        => /\ cb.stale <=> Stale(cb.modified, cb.now, staleAfter)
           /\ (cb.now # 0 /\ cb.now - cb.modified = staleAfter) => ~ cb.stale
           /\ (cb.now - cb.modified = staleAfter + 1) => cb.stale
           /\ (cb.now = 0 \/ cb.modified > cb.now) => cb.stale

\* C11 witness: an entry of age exactly S, with S > 0, found not stale.
C11_Witness ==
    /\ cb.checked /\ ~ cb.stale
    /\ staleAfter > 0 /\ cb.now - cb.modified = staleAfter

\* C12: a cache file with a non-stale modification time whose content does
\* not deserialize makes cached_block return an error, without invoking the
\* refresh callback and without modifying the file.
C12_CorruptIsError ==
    (Returned /\ FoundFresh /\ ~ deserialize(cb.before.bytes).ok)
        => /\ cb.result \in {"deserialize", "open"}
           /\ cb.refreshes = 0
           /\ cacheFile = cb.before

\* C12 witness: the deserialization error returned for a fresh, corrupt file.
C12_Witness ==
    /\ Returned /\ FoundFresh /\ cb.result = "deserialize"
    /\ cb.before.bytes = << 0 >>

\* C13: the refresh callback is invoked exactly once if the stat fails or the
\* cache is stale, and not at all if the file is found and not stale; then the
\* returned record is the one stored in the file and the file is not written.
C13_RefreshOnceOrNever ==
    /\ cb.refreshes <= 1
    /\ Returned
        => /\ (~ cb.statOk \/ Stale(cb.modified, cb.now, staleAfter))
                => cb.refreshes = 1
           /\ FoundFresh
                => /\ cb.refreshes = 0
                   /\ cacheFile = cb.before
                   /\ cb.result = "Ok"
                        => /\ deserialize(cb.before.bytes).ok
                           /\ cb.block = deserialize(cb.before.bytes).block

\* C13 witness: a fresh cache returned as stored, without a refresh.
C13_Witness ==
    /\ Returned /\ FoundFresh /\ cb.result = "Ok"
    /\ cb.refreshes = 0 /\ cb.block # NoBlock

\* What C14 says of the refreshing call itself: the record returned is the one
\* the callback produced and the file holds exactly that record.
C14_Written ==
    (Returned /\ cb.result = "Ok" /\ cb.refreshes = 1)
        => /\ cb.block = cb.fetched /\ cb.block \in Blocks
           /\ cacheFile.exists
           /\ cacheFile.bytes = serialize(cb.block)
           /\ deserialize(cacheFile.bytes) = [ok |-> TRUE, block |-> cb.block]

\* C14 as stated: after a successful refresh, any following call made within
\* the staleness window returns the same record without invoking refresh.
C14_NextCallSameRecord ==
    /\ C14_Written
    /\ (Returned /\ cbPrev.refreshed /\ FoundFresh)
        => /\ cb.result = "Ok"
           /\ cb.block = cbPrev.block
           /\ cb.refreshes = 0

\* C14 amended: after a successful refresh the record returned is the
\* callback's and the file holds exactly that record; a following call that
\* finds the file (stat succeeds) within the staleness window invokes no
\* refresh, leaves the file as it is, and returns that same record, or an
\* error if the file cannot be opened.
C14_NextCallSameRecordOrOpenError ==
    /\ C14_Written
    /\ (Returned /\ cbPrev.refreshed /\ FoundFresh)
        => /\ cb.refreshes = 0
           /\ cacheFile = cb.before
           /\ cb.result \in {"Ok", "open"}
           /\ cb.result = "Ok" => cb.block = cbPrev.block

\* C14 witness: the call after a successful refresh, within the window,
\* returning the refreshed record.
C14_Witness ==
    /\ Returned /\ cbPrev.refreshed /\ FoundFresh
    /\ cb.result = "Ok" /\ cb.block = cbPrev.block /\ cb.refreshes = 0

\* What C17 says of the failing call: the callback's error is returned and the
\* cache file is exactly as it was.
C17_FileUntouched ==
    (Returned /\ NeededRefresh(cb) /\ cb.result = "refresh")
        => /\ cb.refreshes = 1
           /\ cacheFile = cb.before

\* C17 as stated: after a needed refresh whose callback failed, the file is
\* as it was and the next call attempts the refresh again.
C17_NextCallRefreshes ==
    /\ C17_FileUntouched
    /\ (Returned /\ cbPrev.failed) => cb.refreshes = 1

\* C17 amended: after a needed refresh whose callback failed, cached_block
\* returns that error and the file is exactly as it was; the next call
\* attempts the refresh again if the file is absent or is then still stale.
C17_NextCallRefreshesIfStillStale ==
    /\ C17_FileUntouched
    /\ (Returned /\ cbPrev.failed)
        => /\ (~ cb.before.exists) => cb.refreshes = 1
           /\ (cb.statOk /\ Stale(cb.modified, cb.now, staleAfter)) => cb.refreshes = 1

\* C17 witness: two calls in a row whose refresh failed over a stale file.
C17_Witness ==
    /\ Returned /\ cbPrev.failed /\ cb.result = "refresh"
    /\ cb.before.exists /\ cb.statOk /\ cb.stale
    /\ cacheFile = cb.before

\* C19: current - last is evaluated only when current >= last, so it never
\* underflows or wraps.
C19_NoUnderflow ==
    cb.checked
        => /\ cb.subtracted => cb.now >= cb.modified
           /\ ~ cb.underflow

\* C19 witness: the staleness test of a file newer than the clock: no
\* subtraction is made.
C19_Witness ==
    /\ cb.checked /\ cb.modified > cb.now /\ cb.now # 0
    /\ ~ cb.subtracted /\ cb.stale

\* ------------------------------------------ claims on the staging directory
\* The operation was attempted by the call and succeeded.
Succeeded(op) == \E i \in DOMAIN steps : steps[i] = [op |-> op, ok |-> TRUE]

\* This schedule() call created its temp staging directory.
CreatedTmp == Completed("schedule") /\ Succeeded("tempdir")

\* The last operation of the call was the removal of the temp directory.
LastCleanup ==
    /\ steps # << >>
    /\ steps[Len(steps)].op \in {"drop_tmp", "remove_tmp"}

\* C18 as stated: after every completed schedule() call no temp staging
\* directory created by that call remains.
C18_NoTmpRemains ==
    CreatedTmp => ~ updaterTmp.exists

\* C18 amended: after a completed schedule() call that created a temp staging
\* directory, either the rename succeeded and the directory became the
\* boot-visible directory, or the call failed, the removal of the temp
\* directory was its last operation, and the directory remains only if that
\* removal failed.
C18_TmpRenamedOrRemovalAttempted ==
    CreatedTmp
        => IF Succeeded("rename")
           THEN ~ updaterTmp.exists /\ Committed(updaterDir)
           ELSE /\ result # "Ok"
                /\ LastCleanup
                /\ steps[Len(steps)].ok => ~ updaterTmp.exists
                /\ updaterTmp.exists => ~ steps[Len(steps)].ok

\* C18 witness: a schedule() that failed after creating the temp directory
\* and removed it.
C18_Witness ==
    /\ CreatedTmp /\ result # "Ok"
    /\ LastCleanup /\ steps[Len(steps)].ok
    /\ ~ updaterTmp.exists

\* ------------------------------------------------ claims on the pure functions
IsProperPrefixOfEntry(m) == \E e \in MODEL_WHITELIST : m \in ProperPrefixes(e)

IsExtensionOfEntry(m) ==
    \E e \in MODEL_WHITELIST : Len(m) > Len(e) /\ SubSeq(m, 1, Len(e)) = e

IsCaseVariantOfEntry(m) == \E v \in CaseVariants : m = v[1]

Asked == pure.op = "model_is_whitelisted"

\* model_is_whitelisted(m) is true exactly for the entries.
C15_ExactMatch ==
    Asked => (pure.flag <=> model \in MODEL_WHITELIST)

\* C15 as stated: model_is_whitelisted(m) is true if and only if m equals an
\* entry of the allow-list, and a proper prefix, an extension or a case
\* variant of an entry yields false.
C15_PrefixExtensionVariantFalse ==
    /\ C15_ExactMatch
    /\ (/\ Asked
        /\ \/ IsProperPrefixOfEntry(model)
           \/ IsExtensionOfEntry(model)
           \/ IsCaseVariantOfEntry(model))
        => ~ pure.flag

\* C15 amended: model_is_whitelisted(m) is true if and only if m equals an
\* entry of the allow-list; a proper prefix, an extension or a case variant of
\* an entry yields false unless it is itself an entry.
C15_FalseUnlessEntry ==
    /\ C15_ExactMatch
    /\ (/\ Asked
        /\ \/ IsProperPrefixOfEntry(model)
           \/ IsExtensionOfEntry(model)
           \/ IsCaseVariantOfEntry(model)
        /\ model \notin MODEL_WHITELIST)
        => ~ pure.flag

\* C15 witness: an extension of an entry that is no entry, answered false.
C15_Witness ==
    /\ Asked /\ model = "galp3-bx"
    /\ IsExtensionOfEntry(model) /\ ~ pure.flag

Identified == pure.op = "firmware_id"

EmptyDigest == "e3b0c44298fc1c149afbf4c8996fb92427ae41e4649b934ca495991b7852b855"

\* C16: firmware_id() returns an error if and only if the board-model
\* retrieval fails; without an embedded controller it succeeds with the
\* digest of the empty string; the result is model _ digest(ecProject), the
\* same for the same model and project.
C16_FirmwareId ==
    Identified
        => /\ pure.ok <=> pure.biosOk
           /\ pure.ok
                => /\ pure.id = model \o "_" \o sha256(ecProject)
                   /\ ecProject = "" => pure.id = model \o "_" \o EmptyDigest
                   /\ pure.earlier # "" => pure.id = pure.earlier

\* C16 witness: a second successful firmware_id() without an embedded
\* controller.
C16_Witness ==
    /\ Identified /\ pure.ok /\ ecProject = "" /\ model = "galp3"
    /\ pure.earlier = "galp3_" \o EmptyDigest
    /\ pure.id = pure.earlier

====
